---- MODULE Spec2Model ----
(***************************************************************************)
(* Model of the JSON front end of src/src/libs.rs: the peek-based Lexer    *)
(* (text -> tokens) and the recursive-descent Parser (tokens -> tree).     *)
(* A character is a one-character string, a text is a sequence of          *)
(* characters.  A call returns a record whose kind is "ok", "err" (an      *)
(* Err(String) of the code; msg is the format string, arg what is          *)
(* formatted into it) or "panic" (an unwrap()/unreachable!() that fires).  *)
(***************************************************************************)
EXTENDS Integers, Sequences, FiniteSets, TLC

VARIABLES text, input, token_list, lexResult, lexCalls,
          tokens, position, ast, parseResult, parseCalls, parser

vars == <<text, input, token_list, lexResult, lexCalls,
          tokens, position, ast, parseResult, parseCalls, parser>>

(***************************************************************************)
(* Bounds of the model.                                                    *)
(***************************************************************************)
MaxLen == 3
MaxWsLen == 3
MaxWordLen == 4
MaxTokLen == 3
MaxDepth == 2
MaxWidth == 2
MaxCalls == 2

(***************************************************************************)
(* Characters.                                                             *)
(***************************************************************************)
Quote == "\""
Whitespace == {" ", "\n", "\t", "\r"}
SimpleChars == {"{", "}", "[", "]", ":", ","}
AsciiDigit == {"0", "1", "2", "3", "4", "5", "6", "7", "8", "9"}
AsciiLetter == {"t", "r", "u", "e", "f", "a", "l", "s", "n", "x", "b", "T", "h", "o"}
\* char::is_alphabetic is the Unicode property: it also holds of letters
\* outside the ASCII range, which the dispatch of Lexer::parse rejects.
Alphabetic == AsciiLetter \cup {"é"}
OtherChars == {".", "-", "\\"}
Char == Whitespace \cup SimpleChars \cup {Quote} \cup AsciiDigit
          \cup Alphabetic \cup OtherChars

None == [some |-> FALSE]
Some(v) == [some |-> TRUE, value |-> v]

Token(tt, v) == [token_type |-> tt, value |-> v]

TokenType == {"OpenObject", "CloseObject", "OpenArray", "CloseArray", "String",
              "Number", "True", "False", "Null", "Colon", "Comma"}

(***************************************************************************)
(* The Err(String) messages of the code, under the names of the error      *)
(* taxonomy they stand for.  The lexer reports a string left open with the *)
(* end-of-input message of consume_char; the code has no message for a     *)
(* trailing comma.                                                         *)
(***************************************************************************)
UnexpectedCharacter == "Unexpected character: '{}'"
UnknownKeyword == "Unknown keyword: {}"
UnterminatedString == "Unexpected end of input"
ExpectedChar == "Expected '{}', but found '{}'"
UnexpectedEndOfInput == "Unexpected end of input"
UnexpectedToken == "Invalid JSON token"
InvalidToken == "Invalid token"
ExpectedStringKey == "Expected string"
ExpectedToken == "Expected {:?}, found unexpected token"
ExpectedCommaOrCloseObject == "Expected ',' or '}' in object"
ExpectedCommaOrCloseArray == "Invalid separator"
InvalidNumber == "Invalid number"

(***************************************************************************)
(* Lexer (libs.rs, mod lexer).  Every operator takes the characters the    *)
(* iterator self.input still holds and returns, with its result, the       *)
(* characters left in it.                                                  *)
(***************************************************************************)
\* Mutant: Iterator::take_while, which also consumes the first rejected
\* character (the scanner of lexer_old.rs).
take_while_consuming(s, accepted) ==
    LET n == CHOOSE k \in 0..Len(s) :
                 /\ \A i \in 1..k : s[i] \in accepted
                 /\ (k = Len(s) \/ s[k + 1] \notin accepted)
    IN [taken |-> SubSeq(s, 1, n), rest |-> SubSeq(s, n + 2, Len(s))]

\* Itertools::peeking_take_while: the longest prefix whose characters are all
\* accepted; the first rejected character is peeked, not consumed.
peeking_take_while(s, accepted) ==
    LET n == CHOOSE k \in 0..Len(s) :
                 /\ \A i \in 1..k : s[i] \in accepted
                 /\ (k = Len(s) \/ s[k + 1] \notin accepted)
    IN [taken |-> SubSeq(s, 1, n), rest |-> SubSeq(s, n + 1, Len(s))]

\* Mutant: the closing quote consumed with a bare next(), the end of input
\* not reported (parse_string of lexer2.rs).
consume_char_unchecked(s, expected) ==
    IF s = <<>> THEN [kind |-> "ok", rest |-> s] ELSE [kind |-> "ok", rest |-> Tail(s)]

consume_char(s, expected) ==
    IF s = <<>>
    THEN [kind |-> "err", msg |-> UnterminatedString, arg |-> <<>>, rest |-> s]
    ELSE IF Head(s) = expected
         THEN [kind |-> "ok", rest |-> Tail(s)]
         ELSE [kind |-> "err", msg |-> ExpectedChar,
               arg |-> <<expected, Head(s)>>, rest |-> Tail(s)]

simple_token_type(ch) ==
    CASE ch = "{" -> "OpenObject"
      [] ch = "}" -> "CloseObject"
      [] ch = "[" -> "OpenArray"
      [] ch = "]" -> "CloseArray"
      [] ch = ":" -> "Colon"
      [] ch = "," -> "Comma"
      [] OTHER -> "unreachable"

parse_simple_token(s) ==
    IF s = <<>>
    THEN [kind |-> "panic", msg |-> "unwrap on None", rest |-> s]
    ELSE IF simple_token_type(Head(s)) = "unreachable"
         THEN [kind |-> "panic", msg |-> "unreachable", rest |-> Tail(s)]
         ELSE [kind |-> "ok", rest |-> Tail(s),
               token |-> Token(simple_token_type(Head(s)), <<Head(s)>>)]

parse_string(s) ==
    LET open == consume_char(s, Quote)
        body == peeking_take_while(open.rest, Char \ {Quote})
        close == consume_char(body.rest, Quote)
    IN IF open.kind # "ok" THEN open
       ELSE IF close.kind # "ok" THEN close
       ELSE [kind |-> "ok", rest |-> close.rest, token |-> Token("String", body.taken)]

\* Mutant: the number scanner also takes decimal points.
parse_number_with_dot(s) ==
    LET run == peeking_take_while(s, AsciiDigit \cup {"."})
    IN [kind |-> "ok", rest |-> run.rest, token |-> Token("Number", run.taken)]

parse_number(s) ==
    LET run == peeking_take_while(s, AsciiDigit)
    IN [kind |-> "ok", rest |-> run.rest, token |-> Token("Number", run.taken)]

\* Mutant: the keyword matched without regard to case.
keyword_type_ignore_case(keyword) ==
    CASE keyword \in {<<"t", "r", "u", "e">>, <<"T", "r", "u", "e">>} -> "True"
      [] keyword = <<"f", "a", "l", "s", "e">> -> "False"
      [] keyword = <<"n", "u", "l", "l">> -> "Null"
      [] OTHER -> "unknown"

keyword_type(keyword) ==
    CASE keyword = <<"t", "r", "u", "e">> -> "True"
      [] keyword = <<"f", "a", "l", "s", "e">> -> "False"
      [] keyword = <<"n", "u", "l", "l">> -> "Null"
      [] OTHER -> "unknown"

parse_keyword(s) ==
    LET run == peeking_take_while(s, Alphabetic)
    IN IF keyword_type(run.taken) = "unknown"
       THEN [kind |-> "err", msg |-> UnknownKeyword, arg |-> run.taken,
             rest |-> run.rest]
       ELSE [kind |-> "ok", rest |-> run.rest,
             token |-> Token(keyword_type(run.taken), run.taken)]

\* Mutant: the carriage return left out of the whitespace arm.
lex_dispatch_no_cr(current_char) ==
    CASE current_char \in {" ", "\n", "\t"} -> "skip"
      [] current_char \in SimpleChars -> "simple"
      [] current_char = Quote -> "string"
      [] current_char \in AsciiDigit -> "number"
      [] current_char \in AsciiLetter -> "keyword"
      [] OTHER -> "unexpected"

\* The match of Lexer::parse on the peeked character: which sub-scanner runs.
lex_dispatch(current_char) ==
    CASE current_char \in Whitespace -> "skip"
      [] current_char \in SimpleChars -> "simple"
      [] current_char = Quote -> "string"
      [] current_char \in AsciiDigit -> "number"
      [] current_char \in AsciiLetter -> "keyword"
      [] OTHER -> "unexpected"

lex_token(s) ==
    CASE lex_dispatch(Head(s)) = "simple" -> parse_simple_token(s)
      [] lex_dispatch(Head(s)) = "string" -> parse_string(s)
      [] lex_dispatch(Head(s)) = "number" -> parse_number(s)
      [] lex_dispatch(Head(s)) = "keyword" -> parse_keyword(s)

\* The while-let loop of Lexer::parse, from the characters s still in the
\* iterator and the local token_list acc built so far.
RECURSIVE lex_loop(_, _)
lex_loop(s, acc) ==
    IF s = <<>> THEN [kind |-> "ok", value |-> acc, rest |-> s]
    ELSE IF lex_dispatch(Head(s)) = "skip" THEN lex_loop(Tail(s), acc)
    ELSE IF lex_dispatch(Head(s)) = "unexpected"
         THEN [kind |-> "err", msg |-> UnexpectedCharacter,
               arg |-> <<Head(s)>>, rest |-> s]
    ELSE LET r == lex_token(s)
         IN IF r.kind = "ok" THEN lex_loop(r.rest, Append(acc, r.token))
            ELSE r

Lexer_parse(s) == lex_loop(s, <<>>)

(***************************************************************************)
(* Tree values (libs.rs, enum ASTNode).                                    *)
(***************************************************************************)
ObjectNode(properties) == [type |-> "Object", children |-> properties]
ArrayNode(elements) == [type |-> "Array", children |-> elements]
StringNode(v) == [type |-> "String", string |-> v]
NumberNode(n) == [type |-> "Number", number |-> n]
TrueNode == [type |-> "True"]
FalseNode == [type |-> "False"]
NullNode == [type |-> "Null"]

(***************************************************************************)
(* str::parse::<f64> on the text of a Number token.  The value is kept as  *)
(* sign, integer part and fraction digits (trailing zeros dropped).  The    *)
(* texts the model draws hold a sign, digits and a decimal point only; an  *)
(* exponent, "inf" and "nan" are not drawn.                                *)
(***************************************************************************)
DigitVal(c) ==
    CASE c = "0" -> 0 [] c = "1" -> 1 [] c = "2" -> 2 [] c = "3" -> 3
      [] c = "4" -> 4 [] c = "5" -> 5 [] c = "6" -> 6 [] c = "7" -> 7
      [] c = "8" -> 8 [] c = "9" -> 9

RECURSIVE DigitsVal(_)
DigitsVal(ds) ==
    IF ds = <<>> THEN 0
    ELSE 10 * DigitsVal(SubSeq(ds, 1, Len(ds) - 1)) + DigitVal(ds[Len(ds)])

RECURSIVE DropTrailingZeros(_)
DropTrailingZeros(ds) ==
    IF ds # <<>> /\ ds[Len(ds)] = "0"
    THEN DropTrailingZeros(SubSeq(ds, 1, Len(ds) - 1))
    ELSE ds

F64(neg, int, frac) == [neg |-> neg, int |-> int, frac |-> frac]

parse_f64(txt) ==
    LET signed == txt # <<>> /\ Head(txt) \in {"-", "+"}
        neg == txt # <<>> /\ Head(txt) = "-"
        body == IF signed THEN Tail(txt) ELSE txt
        ip == peeking_take_while(body, AsciiDigit)
        dotted == ip.rest # <<>> /\ Head(ip.rest) = "."
        fp == peeking_take_while(IF dotted THEN Tail(ip.rest) ELSE ip.rest, AsciiDigit)
    IN IF fp.rest # <<>> \/ (ip.taken = <<>> /\ fp.taken = <<>>)
       THEN [kind |-> "err"]
       ELSE [kind |-> "ok",
             value |-> F64(neg, DigitsVal(ip.taken), DropTrailingZeros(fp.taken))]

(***************************************************************************)
(* Parser (libs.rs, mod parser).  toks is the slice the parser was built   *)
(* over and pos the number of tokens its iterator self.tokens has          *)
(* consumed; every operator returns the new pos with its result.           *)
(***************************************************************************)
PErr(m, a, p) == [kind |-> "err", msg |-> m, arg |-> a, pos |-> p]
POk(v, p) == [kind |-> "ok", value |-> v, pos |-> p]

\* self.tokens.peek().map(|t| t.token_type): "None" at the end of the slice.
peek_type(toks, pos) ==
    IF pos < Len(toks) THEN toks[pos + 1].token_type ELSE "None"

consume_string(toks, pos) ==
    IF pos >= Len(toks) THEN PErr(UnexpectedEndOfInput, <<>>, pos)
    ELSE IF toks[pos + 1].token_type = "String"
         THEN POk(toks[pos + 1].value, pos + 1)
         ELSE PErr(ExpectedStringKey, <<>>, pos + 1)

\* Mutant: the token consumed without its type being compared.
consume_token_any(toks, pos, expected) ==
    IF pos >= Len(toks) THEN PErr(UnexpectedEndOfInput, <<>>, pos)
    ELSE POk(<<>>, pos + 1)

consume_token(toks, pos, expected) ==
    IF pos >= Len(toks) THEN PErr(UnexpectedEndOfInput, <<>>, pos)
    ELSE IF toks[pos + 1].token_type = expected
         THEN POk(<<>>, pos + 1)
         ELSE PErr(ExpectedToken, <<expected>>, pos + 1)

parse_basic(toks, pos) ==
    IF pos >= Len(toks) THEN PErr(UnexpectedEndOfInput, <<>>, pos)
    ELSE LET token == toks[pos + 1]
             number == parse_f64(token.value)
         IN CASE token.token_type = "True" -> POk(TrueNode, pos + 1)
              [] token.token_type = "False" -> POk(FalseNode, pos + 1)
              [] token.token_type = "Null" -> POk(NullNode, pos + 1)
              [] token.token_type = "Number" ->
                    IF number.kind = "ok"
                    THEN POk(NumberNode(number.value), pos + 1)
                    ELSE PErr(InvalidNumber, <<>>, pos + 1)
              [] token.token_type = "String" -> POk(StringNode(token.value), pos + 1)
              [] OTHER -> PErr(InvalidToken, <<>>, pos + 1)

RECURSIVE Parser_parse(_, _)
RECURSIVE parse_object(_, _)
RECURSIVE object_loop(_, _, _)
RECURSIVE parse_array(_, _)
RECURSIVE array_loop(_, _, _)

\* Mutant: a member whose key is already present replaces the earlier one,
\* as an insertion into a map would.
RECURSIVE merge_properties(_)
merge_properties(properties) ==
    IF properties = <<>> THEN <<>>
    ELSE LET last == properties[Len(properties)]
             before == SubSeq(properties, 1, Len(properties) - 1)
         IN Append(merge_properties(SelectSeq(before, LAMBDA m : m[1] # last[1])), last)
object_separator_merging(toks, pos, properties) ==
    CASE peek_type(toks, pos) = "Comma" ->
             object_loop(toks, pos + 1, merge_properties(properties))
      [] peek_type(toks, pos) = "CloseObject" -> POk(merge_properties(properties), pos)
      [] OTHER -> PErr(ExpectedCommaOrCloseObject, <<>>, pos)

\* The separator match of parse_object after a member, properties holding it.
object_separator(toks, pos, properties) ==
    CASE peek_type(toks, pos) = "Comma" -> object_loop(toks, pos + 1, properties)
      [] peek_type(toks, pos) = "CloseObject" -> POk(properties, pos)
      [] OTHER -> PErr(ExpectedCommaOrCloseObject, <<>>, pos)

\* The while loop of parse_object, entered at its condition.
object_loop(toks, pos, properties) ==
    IF peek_type(toks, pos) = "CloseObject" THEN POk(properties, pos)
    ELSE LET key == consume_string(toks, pos)
             colon == consume_token(toks, key.pos, "Colon")
             value == Parser_parse(toks, colon.pos)
         IN IF key.kind # "ok" THEN key
            ELSE IF colon.kind # "ok" THEN colon
            ELSE IF value.kind # "ok" THEN value
            ELSE object_separator(toks, value.pos,
                                  Append(properties, <<key.value, value.value>>))

parse_object(toks, pos) ==
    LET open == consume_token(toks, pos, "OpenObject")
        body == object_loop(toks, open.pos, <<>>)
        close == consume_token(toks, body.pos, "CloseObject")
    IN IF open.kind # "ok" THEN open
       ELSE IF body.kind # "ok" THEN body
       ELSE IF close.kind # "ok" THEN close
       ELSE POk(body.value, close.pos)

\* Mutant: any token but a Comma taken as the end of the array.
array_separator_any_close(toks, pos, elements) ==
    CASE peek_type(toks, pos) = "None" -> PErr(UnexpectedEndOfInput, <<>>, pos)
      [] peek_type(toks, pos) = "Comma" -> array_loop(toks, pos + 1, elements)
      [] OTHER -> POk(elements, pos)

\* The separator match of parse_array after an element, elements holding it.
array_separator(toks, pos, elements) ==
    CASE peek_type(toks, pos) = "None" -> PErr(UnexpectedEndOfInput, <<>>, pos)
      [] peek_type(toks, pos) = "Comma" -> array_loop(toks, pos + 1, elements)
      [] peek_type(toks, pos) = "CloseArray" -> POk(elements, pos)
      [] OTHER -> PErr(ExpectedCommaOrCloseArray, <<>>, pos)

\* The loop of parse_array, entered at its top.
array_loop(toks, pos, elements) ==
    LET element == Parser_parse(toks, pos)
    IN IF element.kind # "ok" THEN element
       ELSE array_separator(toks, element.pos, Append(elements, element.value))

parse_array(toks, pos) ==
    LET open == consume_token(toks, pos, "OpenArray")
        empty == consume_token(toks, open.pos, "CloseArray")
        body == array_loop(toks, open.pos, <<>>)
        close == consume_token(toks, body.pos, "CloseArray")
    IN IF open.kind # "ok" THEN open
       ELSE IF peek_type(toks, open.pos) = "CloseArray"
            THEN (IF empty.kind # "ok" THEN empty ELSE POk(<<>>, empty.pos))
       ELSE IF body.kind # "ok" THEN body
       ELSE IF close.kind # "ok" THEN close
       ELSE POk(body.value, close.pos)

\* Mutant: the next token read by index, self.tokens[self.position], which
\* panics past the end of the slice (Parser::parse of main.rs).
Parser_parse_indexed(toks, pos) ==
    LET object == parse_object(toks, pos)
        array == parse_array(toks, pos)
    IN CASE peek_type(toks, pos) = "None" ->
                [kind |-> "panic", msg |-> "index out of bounds", pos |-> pos]
         [] peek_type(toks, pos) = "OpenObject" ->
                IF object.kind = "ok"
                THEN POk(ObjectNode(object.value), object.pos) ELSE object
         [] peek_type(toks, pos) = "OpenArray" ->
                IF array.kind = "ok"
                THEN POk(ArrayNode(array.value), array.pos) ELSE array
         [] peek_type(toks, pos) \in {"True", "False", "Null", "Number", "String"} ->
                parse_basic(toks, pos)
         [] OTHER -> PErr(UnexpectedToken, <<>>, pos)

Parser_parse(toks, pos) ==
    LET object == parse_object(toks, pos)
        array == parse_array(toks, pos)
    IN CASE peek_type(toks, pos) = "None" ->
                PErr(UnexpectedEndOfInput, <<>>, pos)
         [] peek_type(toks, pos) = "OpenObject" ->
                IF object.kind = "ok"
                THEN POk(ObjectNode(object.value), object.pos) ELSE object
         [] peek_type(toks, pos) = "OpenArray" ->
                IF array.kind = "ok"
                THEN POk(ArrayNode(array.value), array.pos) ELSE array
         [] peek_type(toks, pos) \in {"True", "False", "Null", "Number", "String"} ->
                parse_basic(toks, pos)
         [] OTHER -> PErr(UnexpectedToken, <<>>, pos)

(***************************************************************************)
(* The inputs of the model: texts given to Lexer::new and token slices     *)
(* given to Parser::new.                                                   *)
(***************************************************************************)
SeqsUpTo(S, n) == UNION {[1..k -> S] : k \in 0..n}

\* A reference JSON grammar: the value trees of the scoped grammar, the
\* lexemes of a tree in document order, and its text with the whitespace ws
\* between any two lexemes.
Leaves == {TrueNode, FalseNode, NullNode, StringNode(<<"a">>), StringNode(<<>>),
           StringNode(<<",", " ", "1", "}">>),
           NumberNode(F64(FALSE, 1, <<>>)), NumberNode(F64(FALSE, 20, <<>>))}
Keys == {<<"a">>, <<"b">>}

FlatTrees ==
    {ArrayNode(es) : es \in SeqsUpTo(Leaves, MaxWidth)}
      \cup {ObjectNode(ms) : ms \in SeqsUpTo(Keys \X {NullNode, NumberNode(F64(FALSE, 1, <<>>))},
                                           MaxWidth)}

RECURSIVE NestedTrees(_)
NestedTrees(d) ==
    IF d = 0 THEN {NullNode, StringNode(<<"a">>), ArrayNode(<<>>), ObjectNode(<<>>)}
    ELSE NestedTrees(d - 1)
           \cup {ArrayNode(<<t>>) : t \in NestedTrees(d - 1)}
           \cup {ArrayNode(<<TrueNode, t>>) : t \in NestedTrees(d - 1)}
           \cup {ObjectNode(<<<<<<"a">>, t>>>>) : t \in NestedTrees(d - 1)}
           \cup {ObjectNode(<<<<<<"a">>, t>>, <<<<"a">>, FalseNode>>>>) :
                   t \in NestedTrees(d - 1)}

\* {"a": 1, "b": [true, false, null]} and [[[]]]
ExampleTree ==
    ObjectNode(<< <<<<"a">>, NumberNode(F64(FALSE, 1, <<>>))>>,
                  <<<<"b">>, ArrayNode(<<TrueNode, FalseNode, NullNode>>)>> >>)
NestTree == ArrayNode(<<ArrayNode(<<ArrayNode(<<>>)>>)>>)

WellFormedTrees == Leaves \cup FlatTrees \cup NestedTrees(MaxDepth)
                     \cup {ExampleTree, NestTree}

DigitChar(d) ==
    CASE d = 0 -> "0" [] d = 1 -> "1" [] d = 2 -> "2" [] d = 3 -> "3" [] d = 4 -> "4"
      [] d = 5 -> "5" [] d = 6 -> "6" [] d = 7 -> "7" [] d = 8 -> "8" [] d = 9 -> "9"

RECURSIVE DigitsOf(_)
DigitsOf(n) ==
    IF n < 10 THEN <<DigitChar(n)>> ELSE Append(DigitsOf(n \div 10), DigitChar(n % 10))

RECURSIVE Lexemes(_)
RECURSIVE MemberLexemes(_, _)
RECURSIVE ElementLexemes(_, _)
MemberLexemes(ms, i) ==
    IF i > Len(ms) THEN <<>>
    ELSE (IF i > 1 THEN <<Token("Comma", <<",">>)>> ELSE <<>>)
           \o <<Token("String", ms[i][1]), Token("Colon", <<":">>)>>
           \o Lexemes(ms[i][2]) \o MemberLexemes(ms, i + 1)
ElementLexemes(es, i) ==
    IF i > Len(es) THEN <<>>
    ELSE (IF i > 1 THEN <<Token("Comma", <<",">>)>> ELSE <<>>)
           \o Lexemes(es[i]) \o ElementLexemes(es, i + 1)
Lexemes(t) ==
    CASE t.type = "Object" ->
            <<Token("OpenObject", <<"{">>)>> \o MemberLexemes(t.children, 1)
              \o <<Token("CloseObject", <<"}">>)>>
      [] t.type = "Array" ->
            <<Token("OpenArray", <<"[">>)>> \o ElementLexemes(t.children, 1)
              \o <<Token("CloseArray", <<"]">>)>>
      [] t.type = "String" -> <<Token("String", t.string)>>
      [] t.type = "Number" -> <<Token("Number", DigitsOf(t.number.int))>>
      [] t.type = "True" -> <<Token("True", <<"t", "r", "u", "e">>)>>
      [] t.type = "False" -> <<Token("False", <<"f", "a", "l", "s", "e">>)>>
      [] t.type = "Null" -> <<Token("Null", <<"n", "u", "l", "l">>)>>

Spelling(tok) ==
    IF tok.token_type = "String" THEN <<Quote>> \o tok.value \o <<Quote>> ELSE tok.value

RECURSIVE Spell(_, _)
Spell(toks, ws) ==
    IF toks = <<>> THEN <<>>
    ELSE IF Len(toks) = 1 THEN Spelling(toks[1])
    ELSE Spelling(toks[1]) \o ws \o Spell(Tail(toks), ws)

Render(t, ws) == Spell(Lexemes(t), ws)

Spacings == {<<>>, <<" ">>, <<"\n", "\t", "\r">>}

WellFormedTexts == {Render(t, ws) : t \in WellFormedTrees, ws \in Spacings}

\* {"a": 1, "b": [true, false, null]} as the specification spells it
ExampleText ==
    <<"{", Quote, "a", Quote, ":", " ", "1", ",", " ", Quote, "b", Quote, ":", " ",
      "[", "t", "r", "u", "e", ",", " ", "f", "a", "l", "s", "e", ",", " ",
      "n", "u", "l", "l", "]", "}">>

\* Every text over TextAlphabet up to MaxLen characters.
TextAlphabet == {"{", "}", "[", ",", ":", Quote, " ", "1", ".", "a", "-"}
ShortTexts == SeqsUpTo(TextAlphabet, MaxLen)

WhitespaceTexts == SeqsUpTo(Whitespace, MaxWsLen)

\* Words: every run of the letters t r u e up to MaxWordLen, and the misspelt
\* keywords, alone and between other lexemes.
Words == SeqsUpTo({"t", "r", "u", "e"}, MaxWordLen)
           \cup {<<"f", "a", "l", "s", "e">>, <<"n", "u", "l", "l">>, <<"n", "u", "l">>,
                 <<"t", "r", "u", "e", "x">>, <<"T", "r", "u", "e">>,
                 <<"t", "r", "u", "é">>, <<"n", "u", "l", "l", "é">>,
                 <<"f", "a", "l", "s">>, <<"t", "r", "u", "e", "t", "r", "u", "e">>}
WordTexts ==
    {pre \o w \o post : w \in Words,
                        pre \in {<<>>, <<"1", " ">>, <<"{", Quote, "a", Quote, ":", " ">>},
                        post \in {<<>>, <<",">>, <<"1">>, <<"}">>}}

\* Strings with and without their closing quote, and numbers with a decimal
\* point.
StringTexts ==
    {pre \o <<Quote>> \o body \o post :
        pre \in {<<>>, <<"[">>, <<"1", ",">>},
        body \in {<<>>, <<"a">>, <<"a", "b">>, <<"a", " ", "1">>, <<"\\">>, <<"h", "e", "l", "l", "o">>},
        post \in {<<>>, <<Quote>>, <<Quote, "]">>, <<Quote, Quote>>, <<Quote, " ", Quote, "a">>}}
NumberTexts ==
    {pre \o n \o post :
        pre \in {<<>>, <<"[">>},
        n \in {<<"1", ".", "5">>, <<"1", "5">>, <<"0", "1">>, <<"1", ".">>, <<"9">>},
        post \in {<<>>, <<"]">>, <<",", "2">>}}


\* Hand-made token slices: every slice over TokenAlphabet up to MaxTokLen
\* tokens, and the lexemes of a well-formed tree with a Comma put before a
\* closing delimiter.
TokenAlphabet ==
    {Token("OpenObject", <<"{">>), Token("CloseObject", <<"}">>),
     Token("OpenArray", <<"[">>), Token("CloseArray", <<"]">>),
     Token("String", <<"a">>), Token("Number", <<"1">>), Token("Number", <<"x">>),
     Token("Number", <<"1", ".", "5">>), Token("Number", <<>>),
     Token("True", <<"t", "r", "u", "e">>), Token("Colon", <<":">>),
     Token("Comma", <<",">>)}
ShortTokens == SeqsUpTo(TokenAlphabet, MaxTokLen)

InsertAt(toks, i, tok) == SubSeq(toks, 1, i - 1) \o <<tok>> \o SubSeq(toks, i, Len(toks))

\* toks with a Comma put before the closing delimiter at i, when what comes
\* before that delimiter is the end of a member or element.
TrailingCommaAt(toks) ==
    {j \in 2..Len(toks) :
        /\ toks[j].token_type \in {"CloseObject", "CloseArray"}
        /\ toks[j - 1].token_type \notin {"OpenObject", "OpenArray"}}
TrailingCommaTokens ==
    UNION {{InsertAt(Lexemes(t), i, Token("Comma", <<",">>)) :
               i \in TrailingCommaAt(Lexemes(t))} : t \in WellFormedTrees}

\* The trees the damaged slices below are made from.
CaseTrees ==
    NestedTrees(MaxDepth)
      \cup {ExampleTree, ArrayNode(<<NumberNode(F64(FALSE, 1, <<>>))>>),
            ObjectNode(<<<<<<"a">>, NumberNode(F64(FALSE, 1, <<>>))>>>>)}

\* The delimiters open at token n of toks, innermost last.
RECURSIVE Opens(_, _)
Opens(toks, n) ==
    IF n = 0 THEN <<>>
    ELSE LET s == Opens(toks, n - 1)
             tt == toks[n].token_type
         IN IF tt \in {"OpenObject", "OpenArray"} THEN Append(s, tt)
            ELSE IF tt \in {"CloseObject", "CloseArray"} /\ s # <<>>
                 THEN SubSeq(s, 1, Len(s) - 1)
            ELSE s
Enclosing(toks, j) ==
    LET s == Opens(toks, j - 1) IN IF s = <<>> THEN "None" ELSE s[Len(s)]

RemoveAt(toks, i) == SubSeq(toks, 1, i - 1) \o SubSeq(toks, i + 1, Len(toks))
ReplaceAt(toks, i, tok) == SubSeq(toks, 1, i - 1) \o <<tok>> \o SubSeq(toks, i + 1, Len(toks))
ColonsOf(toks) == {j \in 1..Len(toks) : toks[j].token_type = "Colon"}

\* The lexemes of a tree with the Colon of one member taken out, and cut
\* right after the key of one member.
MissingColonTokens ==
    UNION {{RemoveAt(Lexemes(t), j) : j \in ColonsOf(Lexemes(t))} : t \in CaseTrees}
KeyEndTokens ==
    UNION {{SubSeq(Lexemes(t), 1, j - 1) : j \in ColonsOf(Lexemes(t))} : t \in CaseTrees}

\* The places of a slice right after a complete member or element: a Comma
\* or closing delimiter that does not follow an opening one.
SeparatorsOf(toks, open) ==
    {j \in 2..Len(toks) :
        /\ toks[j].token_type \in {"Comma", "CloseObject", "CloseArray"}
        /\ toks[j - 1].token_type \notin {"OpenObject", "OpenArray"}
        /\ Enclosing(toks, j) = open}
CommasOf(toks, open) ==
    {j \in SeparatorsOf(toks, open) : toks[j].token_type = "Comma"}

\* What may not follow a member of an object, or an element of an array.
WrongInObject ==
    {Token("CloseArray", <<"]">>), Token("String", <<"a">>), Token("Number", <<"1">>),
     Token("Colon", <<":">>), Token("OpenArray", <<"[">>)}
WrongInArray ==
    {Token("CloseObject", <<"}">>), Token("String", <<"a">>), Token("Number", <<"1">>),
     Token("Colon", <<":">>), Token("OpenObject", <<"{">>)}

\* The lexemes of a tree with the separator after one member (element)
\* replaced by a token that may not follow it, or with one Comma taken out.
BadSeparatorTokens(open, wrong) ==
    UNION {UNION {{ReplaceAt(Lexemes(t), j, w) : w \in wrong} :
                     j \in SeparatorsOf(Lexemes(t), open)}
             \cup {RemoveAt(Lexemes(t), j) : j \in CommasOf(Lexemes(t), open)} :
           t \in CaseTrees}
ObjectBadSeparatorTokens == BadSeparatorTokens("OpenObject", WrongInObject)
ArrayBadSeparatorTokens == BadSeparatorTokens("OpenArray", WrongInArray)

\* The lexemes of a tree followed by further tokens, with the tree.
ExtraTokens ==
    {<<Token("Comma", <<",">>)>>, <<Token("CloseObject", <<"}">>)>>,
     <<Token("CloseArray", <<"]">>), Token("Colon", <<":">>)>>,
     <<Token("Number", <<"1">>)>>, <<Token("Number", <<"x">>)>>,
     <<Token("OpenArray", <<"[">>), Token("CloseArray", <<"]">>)>>,
     <<Token("String", <<"a">>), Token("Colon", <<":">>), Token("Null", <<"n", "u", "l", "l">>)>>}
FollowedCases ==
    {[tree |-> t, toks |-> Lexemes(t) \o e] : t \in Leaves \cup CaseTrees, e \in ExtraTokens}

HandTokens == ShortTokens \cup TrailingCommaTokens \cup MissingColonTokens
                \cup KeyEndTokens \cup ObjectBadSeparatorTokens
                \cup ArrayBadSeparatorTokens \cup {c.toks : c \in FollowedCases}

\* {"a": 1,} as the specification spells it, and the trailing-comma slices
\* spelt without whitespace.
TrailingCommaText == <<"{", Quote, "a", Quote, ":", " ", "1", ",", "}">>
TrailingCommaTexts ==
    {Spell(toks, <<>>) : toks \in TrailingCommaTokens} \cup {TrailingCommaText}

\* {"a" 1} as the specification spells it.
MissingColonText == <<"{", Quote, "a", Quote, " ", "1", "}">>

\* [1} and {"a":1]
MismatchedArrayText == <<"[", "1", "}">>
MismatchedObjectText == <<"{", Quote, "a", Quote, ":", "1", "]">>

Texts == ShortTexts \cup WhitespaceTexts \cup WordTexts \cup StringTexts
           \cup NumberTexts \cup WellFormedTexts \cup {ExampleText}
           \cup TrailingCommaTexts \cup {MissingColonText}
           \cup {MismatchedArrayText, MismatchedObjectText}

(***************************************************************************)
(* The state machine.  text is the text Lexer::new was given, input the    *)
(* characters left in the lexer's iterator, token_list the lexer's field;  *)
(* tokens is the slice Parser::new was given, position the number of       *)
(* tokens the parser's iterator has consumed, ast the parser's field.      *)
(* lexResult and parseResult hold what the last generate call returned.    *)
(***************************************************************************)
NoResult == [kind |-> "none"]

\* What the caller sees of a result: the returned value or error, without
\* the iterator state that came with it.
Returned(r) ==
    CASE r.kind = "ok" -> [kind |-> "ok", value |-> r.value]
      [] r.kind = "err" -> [kind |-> "err", msg |-> r.msg, arg |-> r.arg]
      [] r.kind = "panic" -> [kind |-> "panic", msg |-> r.msg]

\* Lexer::new(text), the parser not yet built.
Init ==
    /\ text \in Texts
    /\ input = text
    /\ token_list = None
    /\ lexResult = NoResult
    /\ lexCalls = 0
    /\ tokens = <<>>
    /\ position = 0
    /\ ast = None
    /\ parseResult = NoResult
    /\ parseCalls = 0
    /\ parser = FALSE

Aborted == lexResult.kind = "panic" \/ parseResult.kind = "panic"

\* Mutant: the field assigned before the error is propagated,
\* self.token_list = Some(self.parse().unwrap_or_default()).
assigned_token_list_always(r, old) ==
    IF r.kind = "ok" THEN Some(r.value) ELSE Some(<<>>)

\* The field token_list after generate, r being what self.parse() returned:
\* the ? returns before the assignment unless r is Ok.
assigned_token_list(r, old) ==
    IF r.kind = "ok" THEN Some(r.value) ELSE old

\* Lexer::generate: self.token_list = Some(self.parse()?)
Lexer_generate ==
    /\ ~Aborted
    /\ ~parser
    /\ lexCalls < MaxCalls
    /\ LET r == Lexer_parse(input)
       IN /\ input' = r.rest
          /\ token_list' = assigned_token_list(r, token_list)
          /\ lexResult' = Returned(r)
    /\ lexCalls' = lexCalls + 1
    /\ UNCHANGED <<text, tokens, position, ast, parseResult, parseCalls, parser>>

\* The slices a caller can build a parser over: the lexer's token list, or,
\* for a caller that ran no lexer, a hand-made slice.
TokenSlices ==
    (IF token_list.some THEN {token_list.value} ELSE {})
      \cup (IF text = <<>> /\ lexCalls = 0 THEN HandTokens ELSE {})

\* Parser::new(tokens)
Parser_new ==
    /\ ~Aborted
    /\ ~parser
    /\ \E toks \in TokenSlices : tokens' = toks
    /\ position' = 0
    /\ ast' = None
    /\ parser' = TRUE
    /\ UNCHANGED <<text, input, token_list, lexResult, lexCalls, parseResult, parseCalls>>

\* Mutant: generate rejects a slice that holds tokens after the value.
Parser_generate_strict ==
    /\ ~Aborted
    /\ parser
    /\ parseCalls < MaxCalls
    /\ LET r == Parser_parse(tokens, position)
           strict == IF r.kind = "ok" /\ r.pos < Len(tokens)
                     THEN PErr(UnexpectedToken, <<>>, r.pos) ELSE r
       IN /\ position' = strict.pos
          /\ ast' = IF strict.kind = "ok" THEN Some(strict.value) ELSE ast
          /\ parseResult' = Returned(strict)
    /\ parseCalls' = parseCalls + 1
    /\ UNCHANGED <<text, input, token_list, lexResult, lexCalls, tokens, parser>>

\* Parser::generate: self.ast = Some(self.parse()?)
Parser_generate ==
    /\ ~Aborted
    /\ parser
    /\ parseCalls < MaxCalls
    /\ LET r == Parser_parse(tokens, position)
       IN /\ position' = r.pos
          /\ ast' = IF r.kind = "ok" THEN Some(r.value) ELSE ast
          /\ parseResult' = Returned(r)
    /\ parseCalls' = parseCalls + 1
    /\ UNCHANGED <<text, input, token_list, lexResult, lexCalls, tokens, parser>>

Next == Lexer_generate \/ Parser_new \/ Parser_generate

Spec == Init /\ [][Next]_vars

(***************************************************************************)
(* The same calls, one loop iteration at a time.  While Lexer::generate    *)
(* runs, lexResult holds the local token_list of Lexer::parse; while       *)
(* Parser::generate runs, parseResult holds the point the parser is at     *)
(* (pc), the parse_object/parse_array calls that are open (stack, the      *)
(* innermost last, each with its local properties or elements and the key  *)
(* read last) and the value a call has just returned (ret).                *)
(***************************************************************************)
\* The texts and slices the calls are run on one iteration at a time: every
\* short text and slice over the delimiters, a digit, a space and a quote,
\* the texts of the specification, and the lexemes of nested trees, whole
\* and with one token taken out.
StepAlphabet == {"[", "]", ",", "1", " ", Quote}
StepTexts ==
    SeqsUpTo(StepAlphabet, MaxLen)
      \cup {ExampleText, TrailingCommaText, MissingColonText, MismatchedArrayText,
            MismatchedObjectText, Render(NestTree, <<"\r", "\n">>),
            <<"t", "r", "u">>, <<"1", ".", "5">>, <<" ", "n", "u", "l", "l", "\t">>}
StepTokenAlphabet ==
    {Token("OpenArray", <<"[">>), Token("CloseArray", <<"]">>), Token("Comma", <<",">>),
     Token("Number", <<"1">>), Token("OpenObject", <<"{">>), Token("String", <<"a">>)}
StepTrees == Leaves \cup NestedTrees(1) \cup {ExampleTree, NestTree}
StepTokens ==
    SeqsUpTo(StepTokenAlphabet, MaxTokLen)
      \cup {Lexemes(t) : t \in StepTrees}
      \cup UNION {{RemoveAt(Lexemes(t), i) : i \in 1..Len(Lexemes(t))} : t \in StepTrees}

\* Lexer::new(text), the parser not yet built.
InitSteps ==
    /\ text \in StepTexts
    /\ input = text
    /\ token_list = None
    /\ lexResult = NoResult
    /\ lexCalls = 0
    /\ tokens = <<>>
    /\ position = 0
    /\ ast = None
    /\ parseResult = NoResult
    /\ parseCalls = 0
    /\ parser = FALSE

Running(acc) == [kind |-> "running", value |-> acc]
LexRunning == lexResult.kind = "running"
ParseRunning == parseResult.kind = "running"

\* Mutant: the whitespace arm peeks at the character and leaves it.
input_peek_only(s) == s

\* self.input.next() of the whitespace arm
input_next(s) == Tail(s)

\* One iteration of the while-let loop of Lexer::parse, a character peeked.
lexer_iteration(s, acc) ==
    LET r == lex_token(s)
    IN CASE lex_dispatch(Head(s)) = "skip" ->
                [kind |-> "running", value |-> acc, rest |-> input_next(s)]
         [] lex_dispatch(Head(s)) = "unexpected" ->
                [kind |-> "err", msg |-> UnexpectedCharacter, arg |-> <<Head(s)>>,
                 rest |-> s]
         [] OTHER ->
                IF r.kind = "ok"
                THEN [kind |-> "running", value |-> Append(acc, r.token), rest |-> r.rest]
                ELSE r

\* Lexer::generate entered: Lexer::parse starts with an empty token_list.
Lexer_generate_call ==
    /\ ~Aborted
    /\ ~parser
    /\ ~LexRunning
    /\ lexCalls < MaxCalls
    /\ lexResult' = Running(<<>>)
    /\ lexCalls' = lexCalls + 1
    /\ UNCHANGED <<text, input, token_list, tokens, position, ast, parseResult,
                   parseCalls, parser>>

\* The loop of Lexer::parse, peek() being Some: one iteration, which goes
\* on, or returns an error that generate passes on.
Lexer_parse_iteration ==
    /\ LexRunning
    /\ input # <<>>
    /\ LET r == lexer_iteration(input, lexResult.value)
       IN /\ input' = r.rest
          /\ lexResult' = IF r.kind = "running" THEN Running(r.value) ELSE Returned(r)
          /\ token_list' = IF r.kind = "running" THEN token_list
                           ELSE assigned_token_list(r, token_list)
    /\ UNCHANGED <<text, lexCalls, tokens, position, ast, parseResult, parseCalls, parser>>

\* The loop of Lexer::parse, peek() being None: Ok(token_list), assigned by
\* generate.
Lexer_generate_return ==
    /\ LexRunning
    /\ input = <<>>
    /\ LET r == [kind |-> "ok", value |-> lexResult.value, rest |-> input]
       IN /\ token_list' = assigned_token_list(r, token_list)
          /\ lexResult' = Returned(r)
    /\ UNCHANGED <<text, input, lexCalls, tokens, position, ast, parseResult,
                   parseCalls, parser>>

Frame(fn, children, key) == [fn |-> fn, children |-> children, key |-> key]
Continue(pc, stack, ret, p) ==
    [kind |-> "running", pc |-> pc, stack |-> stack, ret |-> ret, pos |-> p]
Front(stack) == SubSeq(stack, 1, Len(stack) - 1)
Top(stack) == stack[Len(stack)]

\* After the loop of parse_object: consume_token(CloseObject), Ok(properties).
object_close(toks, pos, stack) ==
    LET close == consume_token(toks, pos, "CloseObject")
    IN IF close.kind # "ok" THEN close
       ELSE Continue("return", Front(stack), Some(ObjectNode(Top(stack).children)),
                     close.pos)

\* After the loop of parse_array: consume_token(CloseArray), Ok(elements).
array_close(toks, pos, stack) ==
    LET close == consume_token(toks, pos, "CloseArray")
    IN IF close.kind # "ok" THEN close
       ELSE Continue("return", Front(stack), Some(ArrayNode(Top(stack).children)),
                     close.pos)

\* Parser::parse: the match on the peeked token, up to the loop of
\* parse_object or parse_array, or through parse_basic.
parse_enter(toks, pos, stack) ==
    LET object == consume_token(toks, pos, "OpenObject")
        array == consume_token(toks, pos, "OpenArray")
        empty == consume_token(toks, array.pos, "CloseArray")
        basic == parse_basic(toks, pos)
    IN CASE peek_type(toks, pos) = "None" -> PErr(UnexpectedEndOfInput, <<>>, pos)
         [] peek_type(toks, pos) = "OpenObject" ->
                IF object.kind # "ok" THEN object
                ELSE Continue("object", Append(stack, Frame("object", <<>>, <<>>)), None,
                              object.pos)
         [] peek_type(toks, pos) = "OpenArray" ->
                IF array.kind # "ok" THEN array
                ELSE IF peek_type(toks, array.pos) = "CloseArray"
                     THEN (IF empty.kind # "ok" THEN empty
                           ELSE Continue("return", stack, Some(ArrayNode(<<>>)), empty.pos))
                ELSE Continue("parse", Append(stack, Frame("array", <<>>, <<>>)), None,
                              array.pos)
         [] peek_type(toks, pos) \in {"True", "False", "Null", "Number", "String"} ->
                IF basic.kind # "ok" THEN basic
                ELSE Continue("return", stack, Some(basic.value), basic.pos)
         [] OTHER -> PErr(UnexpectedToken, <<>>, pos)

\* The loop of parse_object at its condition: the loop is left, or the key
\* and the Colon of a member are consumed and parse() is called.
object_iteration(toks, pos, stack) ==
    LET key == consume_string(toks, pos)
        colon == consume_token(toks, key.pos, "Colon")
    IN IF peek_type(toks, pos) = "CloseObject" THEN object_close(toks, pos, stack)
       ELSE IF key.kind # "ok" THEN key
       ELSE IF colon.kind # "ok" THEN colon
       ELSE Continue("parse", [stack EXCEPT ![Len(stack)].key = key.value], None,
                     colon.pos)

\* parse() has returned Ok(v): to generate, or into the loop of the
\* innermost open parse_object or parse_array, which pushes it and matches
\* the separator.
value_return(toks, pos, stack, v) ==
    LET pushed == Append(Top(stack).children,
                         IF Top(stack).fn = "object" THEN <<Top(stack).key, v>> ELSE v)
        kept == [stack EXCEPT ![Len(stack)].children = pushed]
    IN IF stack = <<>> THEN POk(v, pos)
       ELSE IF Top(stack).fn = "object"
       THEN CASE peek_type(toks, pos) = "Comma" -> Continue("object", kept, None, pos + 1)
              [] peek_type(toks, pos) = "CloseObject" -> object_close(toks, pos, kept)
              [] OTHER -> PErr(ExpectedCommaOrCloseObject, <<>>, pos)
       ELSE CASE peek_type(toks, pos) = "None" -> PErr(UnexpectedEndOfInput, <<>>, pos)
              [] peek_type(toks, pos) = "Comma" -> Continue("parse", kept, None, pos + 1)
              [] peek_type(toks, pos) = "CloseArray" -> array_close(toks, pos, kept)
              [] OTHER -> PErr(ExpectedCommaOrCloseArray, <<>>, pos)

\* The parser after a step that gave r: still running, or generate returns.
Stepped(r) ==
    /\ position' = r.pos
    /\ parseResult' = IF r.kind = "running"
                      THEN [kind |-> "running", pc |-> r.pc, stack |-> r.stack,
                            ret |-> r.ret]
                      ELSE Returned(r)
    /\ ast' = IF r.kind = "ok" THEN Some(r.value) ELSE ast
    /\ UNCHANGED <<text, input, token_list, lexResult, lexCalls, tokens, parseCalls,
                   parser>>

\* The slices a caller can build a parser over, as TokenSlices.
StepSlices ==
    (IF token_list.some THEN {token_list.value} ELSE {})
      \cup (IF text = <<>> /\ lexCalls = 0 THEN StepTokens ELSE {})

\* Parser::new(tokens), no call running.
Parser_new_between_calls ==
    /\ ~Aborted
    /\ ~parser
    /\ ~LexRunning
    /\ \E toks \in StepSlices : tokens' = toks
    /\ position' = 0
    /\ ast' = None
    /\ parser' = TRUE
    /\ UNCHANGED <<text, input, token_list, lexResult, lexCalls, parseResult, parseCalls>>

\* Parser::generate entered: parse() is about to be called.
Parser_generate_call ==
    /\ ~Aborted
    /\ parser
    /\ ~ParseRunning
    /\ parseCalls < MaxCalls
    /\ parseResult' = [kind |-> "running", pc |-> "parse", stack |-> <<>>, ret |-> None]
    /\ parseCalls' = parseCalls + 1
    /\ UNCHANGED <<text, input, token_list, lexResult, lexCalls, tokens, position, ast,
                   parser>>

Parser_parse_call ==
    /\ ParseRunning
    /\ parseResult.pc = "parse"
    /\ Stepped(parse_enter(tokens, position, parseResult.stack))

parse_object_iteration ==
    /\ ParseRunning
    /\ parseResult.pc = "object"
    /\ Stepped(object_iteration(tokens, position, parseResult.stack))

Parser_parse_return ==
    /\ ParseRunning
    /\ parseResult.pc = "return"
    /\ Stepped(value_return(tokens, position, parseResult.stack, parseResult.ret.value))

LexerRuns == Lexer_parse_iteration \/ Lexer_generate_return
ParserRuns == Parser_parse_call \/ parse_object_iteration \/ Parser_parse_return

NextSteps ==
    \/ Lexer_generate_call
    \/ Lexer_parse_iteration
    \/ Lexer_generate_return
    \/ Parser_new_between_calls
    \/ Parser_generate_call
    \/ Parser_parse_call
    \/ parse_object_iteration
    \/ Parser_parse_return

\* A call that was entered keeps running: the program has one thread, which
\* is in the lexer's loop or in the parser until the call returns.
SpecSteps == InitSteps /\ [][NextSteps]_vars /\ WF_vars(LexerRuns) /\ WF_vars(ParserRuns)

(***************************************************************************)
(* Properties.                                                             *)
(***************************************************************************)
Comma == Token("Comma", <<",">>)

\* The slices with a Comma put before a CloseObject (CloseArray) that ends a
\* non-empty object (array) of a well-formed tree.
TrailingCommaBefore(toks, close) ==
    {InsertAt(toks, i, Comma) : i \in {j \in TrailingCommaAt(toks) : toks[j].token_type = close}}
ObjectTrailingCommaTokens ==
    UNION {TrailingCommaBefore(Lexemes(t), "CloseObject") : t \in WellFormedTrees}
ArrayTrailingCommaTokens ==
    UNION {TrailingCommaBefore(Lexemes(t), "CloseArray") : t \in WellFormedTrees}

\* A result is the trailing-comma error when it is an error and none of the
\* errors the taxonomy gives to another situation.
IsTrailingCommaError(r) ==
    /\ r.kind = "err"
    /\ r.msg \notin {UnexpectedEndOfInput, UnexpectedToken, InvalidToken, ExpectedStringKey,
                     ExpectedToken, ExpectedCommaOrCloseObject, ExpectedCommaOrCloseArray,
                     InvalidNumber}

FirstBuild == parser /\ parseCalls = 1

\* C1: build on a slice in which a non-empty object has a Comma right before
\* its CloseObject fails with the trailing-comma error and returns no tree.
C1_ObjectTrailingCommaFails ==
    (FirstBuild /\ tokens \in ObjectTrailingCommaTokens)
        => (IsTrailingCommaError(parseResult) /\ ast = None)

\* C2: build on a slice in which a non-empty array has a Comma right before
\* its CloseArray fails with the trailing-comma error, the one of the object
\* rule, and returns no tree.
C2_ArrayTrailingCommaFails ==
    (FirstBuild /\ tokens \in ArrayTrailingCommaTokens)
        => (IsTrailingCommaError(parseResult) /\ ast = None)

FirstTokenize == lexCalls = 1

\* A text that is digits, a decimal point and digits.
IsDecimalNumber(s) ==
    \E k \in 2..(Len(s) - 1) :
        /\ s[k] = "."
        /\ \A i \in (1..Len(s)) \ {k} : s[i] \in AsciiDigit

\* C3: a text that is a run of digits, a '.' and further digits tokenizes to
\* exactly one Number token whose text is the whole text.
C3_DecimalNumberIsOneToken ==
    (FirstTokenize /\ IsDecimalNumber(text))
        => (lexResult = [kind |-> "ok", value |-> <<Token("Number", text)>>])

\* C4: the second generate call on a lexer returns what the first call
\* returned for the same text.
C4_SecondTokenizeSameResult ==
    (lexCalls = 2) => (lexResult = Returned(Lexer_parse(text)))

\* C5: every tokenize and build call ends with a value or an error result;
\* none aborts with a panic (an unwrap on None, an unreachable arm, an index
\* past the end).
C5_NoPanic ==
    /\ lexResult.kind \in (IF lexCalls = 0 THEN {"none"} ELSE {"ok", "err"})
    /\ parseResult.kind \in (IF parseCalls = 0 THEN {"none"} ELSE {"ok", "err"})

\* A lexed slice that ends early made build return the end-of-input error.
C5_Witness ==
    /\ lexCalls = 1
    /\ FirstBuild
    /\ Len(tokens) > 0
    /\ parseResult = [kind |-> "err", msg |-> UnexpectedEndOfInput, arg |-> <<>>]

\* C6: a generate call that meets a lexical error returns the error alone and
\* leaves the field token_list as it was; on an unexpected character the scan
\* has stopped at that character.
C6_AllOrNothing ==
    [][(lexCalls' = lexCalls + 1 /\ lexResult'.kind = "err")
          => /\ token_list' = token_list
             /\ DOMAIN lexResult' = {"kind", "msg", "arg"}
             /\ (lexResult'.msg = UnexpectedCharacter
                   => (input' # <<>> /\ lexResult'.arg = <<Head(input')>>))]_vars

\* The error came after a valid prefix that held a token.
C6_Witness ==
    /\ lexCalls = 1
    /\ lexResult.kind = "err"
    /\ token_list = None
    /\ Len(text) >= 2
    /\ text[1] \in SimpleChars
    /\ Len(input) < Len(text)

\* The well-formed texts with the tree each was rendered from.
WellFormedCases ==
    {[tree |-> t, text |-> Render(t, ws)] : t \in WellFormedTrees, ws \in Spacings}
      \cup {[tree |-> ExampleTree, text |-> ExampleText]}

\* C7: on a well-formed text tokenize yields the lexemes of the tree in
\* document order, and build on them yields that tree, all tokens consumed.
C7_WellFormedRoundTrip ==
    \A c \in {w \in WellFormedCases : w.text = text} :
        /\ FirstTokenize
             => /\ lexResult = [kind |-> "ok", value |-> Lexemes(c.tree)]
                /\ token_list = Some(Lexemes(c.tree))
        /\ (lexCalls = 1 /\ FirstBuild)
             => /\ tokens = Lexemes(c.tree)
                /\ parseResult = [kind |-> "ok", value |-> c.tree]
                /\ ast = Some(c.tree)
                /\ position = Len(tokens)

\* {"a": 1, "b": [true, false, null]} gave 15 tokens ending in CloseObject and
\* the tree Object[("a", Number 1), ("b", Array[True, False, Null])].
C7_Witness ==
    /\ text = ExampleText
    /\ FirstBuild
    /\ Len(tokens) = 15
    /\ tokens[15].token_type = "CloseObject"
    /\ ast = Some(ExampleTree)

IsWhitespaceOnly(s) == \A i \in 1..Len(s) : s[i] \in Whitespace

\* C8: on a text of whitespace only tokenize returns the empty token
\* sequence, and build on an empty slice fails with the end-of-input error.
C8_WhitespaceOnly ==
    /\ (lexCalls >= 1 /\ IsWhitespaceOnly(text))
         => /\ lexResult = [kind |-> "ok", value |-> <<>>]
            /\ token_list = Some(<<>>)
    /\ (parser /\ parseCalls >= 1 /\ tokens = <<>>)
         => /\ parseResult = [kind |-> "err", msg |-> UnexpectedEndOfInput, arg |-> <<>>]
            /\ ast = None

C8_Witness ==
    /\ Len(text) >= 2
    /\ IsWhitespaceOnly(text)
    /\ lexCalls = 1
    /\ FirstBuild
    /\ tokens = <<>>
    /\ parseResult.kind = "err"

QuotesOf(s) == {i \in 1..Len(s) : s[i] = Quote}
OddQuotes(s) == Cardinality(QuotesOf(s)) % 2 = 1
LastQuote(s) == CHOOSE i \in QuotesOf(s) : \A j \in QuotesOf(s) : j <= i

\* C9: a text with an odd number of double quotes never tokenizes; when the
\* scan gets past its last quote, which then opens a string that is never
\* closed, tokenize fails at the end of input with the unterminated-string
\* error and stores no token; and that error is given in no other case.
C9_UnterminatedString ==
    FirstTokenize =>
        /\ OddQuotes(text)
             => /\ lexResult.kind = "err"
                /\ token_list = None
                /\ (Len(input) <= Len(text) - LastQuote(text)
                      => /\ lexResult.msg = UnterminatedString
                         /\ input = <<>>)
        /\ (lexResult.kind = "err" /\ lexResult.msg = UnterminatedString)
             => OddQuotes(text)

C9_Witness ==
    /\ FirstTokenize
    /\ OddQuotes(text)
    /\ Len(text) > LastQuote(text)
    /\ lexResult = [kind |-> "err", msg |-> UnterminatedString, arg |-> <<>>]

\* The keywords of the grammar and the number of tokens before a word put
\* after each prefix of WordTexts.
KeywordTokens ==
    {Token("True", <<"t", "r", "u", "e">>), Token("False", <<"f", "a", "l", "s", "e">>),
     Token("Null", <<"n", "u", "l", "l">>)}
WordPrefixes ==
    {[pre |-> <<>>, n |-> 0], [pre |-> <<"1", " ">>, n |-> 1],
     [pre |-> <<"{", Quote, "a", Quote, ":", " ">>, n |-> 3]}
IsPrefix(p, s) == Len(p) <= Len(s) /\ SubSeq(s, 1, Len(p)) = p

\* The maximal run of alphabetic characters that s begins with.
AlphabeticRun(s) ==
    SubSeq(s, 1, CHOOSE k \in 0..Len(s) :
                     /\ \A i \in 1..k : s[i] \in Alphabetic
                     /\ (k < Len(s) => s[k + 1] \notin Alphabetic))

\* C10: at an ASCII letter the scanner takes the maximal alphabetic run; when
\* the run is exactly true, false or null the token there is that keyword
\* token, and for every other run tokenize fails with UnknownKeyword
\* carrying the whole run and stores no token.
C10_Keywords ==
    FirstTokenize =>
        \A p \in WordPrefixes :
            (/\ IsPrefix(p.pre, text)
             /\ Len(text) > Len(p.pre)
             /\ text[Len(p.pre) + 1] \in AsciiLetter)
            => LET w == AlphabeticRun(SubSeq(text, Len(p.pre) + 1, Len(text)))
               IN IF \E k \in KeywordTokens : k.value = w
                  THEN /\ lexResult.kind = "ok"
                            => lexResult.value[p.n + 1] \in {k \in KeywordTokens : k.value = w}
                       /\ lexResult.kind = "err"
                            => Len(input) <= Len(text) - Len(p.pre) - Len(w)
                  ELSE /\ lexResult = [kind |-> "err", msg |-> UnknownKeyword, arg |-> w]
                       /\ token_list = None

\* {"a": tru} failed with UnknownKeyword("tru").
C10_Witness ==
    /\ FirstTokenize
    /\ text = <<"{", Quote, "a", Quote, ":", " ", "t", "r", "u", "}">>
    /\ lexResult = [kind |-> "err", msg |-> UnknownKeyword, arg |-> <<"t", "r", "u">>]

IsExpectedColon(r) == r = [kind |-> "err", msg |-> ExpectedToken, arg |-> <<"Colon">>]

\* C11 as stated: whenever the key of a member is not followed by a Colon,
\* the end of the slice included, build fails with the expected-colon error
\* and returns no tree.
C11_NoColonFails ==
    (FirstBuild /\ tokens \in MissingColonTokens \cup KeyEndTokens)
        => (IsExpectedColon(parseResult) /\ ast = None)

\* C11 as amended: a key followed by a token that is not a Colon makes build
\* fail with the expected-colon error; a key the slice ends after makes it
\* fail with the end-of-input error; either way no tree is returned.
C11_NoColonFailsOrEnds ==
    /\ (FirstBuild /\ tokens \in MissingColonTokens)
         => (IsExpectedColon(parseResult) /\ ast = None)
    /\ (FirstBuild /\ tokens \in KeyEndTokens)
         => /\ parseResult = [kind |-> "err", msg |-> UnexpectedEndOfInput, arg |-> <<>>]
            /\ ast = None

\* {"a" 1} was tokenized and build failed on it with the expected-colon error.
C11_Witness ==
    /\ text = MissingColonText
    /\ lexCalls = 1
    /\ FirstBuild
    /\ Len(tokens) = 4
    /\ IsExpectedColon(parseResult)
    /\ ast = None

\* C12: after a complete member of an object a token other than Comma or
\* CloseObject makes build fail with the object's separator error, and after
\* a complete element of an array a token other than Comma or CloseArray
\* makes it fail with the array's separator error; no tree is returned.
C12_BadSeparatorFails ==
    /\ (FirstBuild /\ tokens \in ObjectBadSeparatorTokens)
         => /\ parseResult = [kind |-> "err", msg |-> ExpectedCommaOrCloseObject,
                              arg |-> <<>>]
            /\ ast = None
    /\ (FirstBuild /\ tokens \in ArrayBadSeparatorTokens)
         => /\ parseResult = [kind |-> "err", msg |-> ExpectedCommaOrCloseArray,
                              arg |-> <<>>]
            /\ ast = None

\* [1} was tokenized and build failed on it with the array's separator error.
C12_Witness ==
    /\ text = MismatchedArrayText
    /\ lexCalls = 1
    /\ FirstBuild
    /\ tokens \in ArrayBadSeparatorTokens
    /\ parseResult.kind = "err"
    /\ parseResult.msg = ExpectedCommaOrCloseArray

\* The Colons among the tokens build consumed that stand directly inside the
\* outermost object, and the i-th of them.
MemberColons ==
    {j \in 1..position : tokens[j].token_type = "Colon" /\ Len(Opens(tokens, j)) = 1}
MemberColon(i) ==
    CHOOSE j \in MemberColons : Cardinality({k \in MemberColons : k < j}) = i - 1

BuiltObject ==
    /\ FirstBuild
    /\ parseResult.kind = "ok"
    /\ parseResult.value.type = "Object"

\* C13: an Object that build returns holds one (key, value) pair per member
\* of the slice, in the order of the slice: the i-th pair is the key before
\* the i-th Colon of the object and the value after it, equal keys included.
C13_MembersKeptInOrder ==
    BuiltObject =>
        LET properties == parseResult.value.children
        IN /\ Len(properties) = Cardinality(MemberColons)
           /\ \A i \in 1..Len(properties) :
                 /\ properties[i][1] = tokens[MemberColon(i) - 1].value
                 /\ properties[i][2] = Parser_parse(tokens, MemberColon(i)).value

\* An object was built with two members under the same key and different
\* values.
C13_Witness ==
    /\ BuiltObject
    /\ Len(parseResult.value.children) = 2
    /\ parseResult.value.children[1][1] = parseResult.value.children[2][1]
    /\ parseResult.value.children[1][2] # parseResult.value.children[2][2]
    /\ ast = Some(parseResult.value)

\* C14: build on the lexemes of one complete value followed by further
\* tokens succeeds with the tree of that value, having consumed the tokens of
\* the value and none after them.
C14_TrailingTokensIgnored ==
    \A c \in {f \in FollowedCases : f.toks = tokens} :
        FirstBuild
            => /\ parseResult = [kind |-> "ok", value |-> c.tree]
               /\ ast = Some(c.tree)
               /\ position = Len(Lexemes(c.tree))
               /\ position < Len(tokens)

\* A leaf followed by two tokens was built with one token consumed.
C14_Witness ==
    /\ FirstBuild
    /\ Len(tokens) = 3
    /\ position = 1
    /\ parseResult = [kind |-> "ok", value |-> TrueNode]
    /\ ast = Some(TrueNode)

\* C16: every Number token of a token list produced by the lexer has a
\* non-empty text made of ASCII digits only, and no build over a token list
\* produced by the lexer fails with InvalidNumber.
DigitsOnly(v) == v # <<>> /\ \A i \in 1..Len(v) : v[i] \in AsciiDigit
NumberTokensOf(toks) == {i \in 1..Len(toks) : toks[i].token_type = "Number"}
IsInvalidNumber(r) == r.kind = "err" /\ r.msg = InvalidNumber
C16_LexedNumbersParse ==
    /\ token_list.some
          => \A i \in NumberTokensOf(token_list.value) : DigitsOnly(token_list.value[i].value)
    /\ (lexCalls >= 1 /\ parser)
          => /\ \A i \in NumberTokensOf(tokens) : DigitsOnly(tokens[i].value)
             /\ ~IsInvalidNumber(parseResult)

\* A lexed text of two digits and more was built into one Number.
C16_Witness ==
    /\ lexCalls = 1
    /\ FirstBuild
    /\ Len(text) >= 2
    /\ tokens = token_list.value
    /\ NumberTokensOf(tokens) = {1}
    /\ Len(tokens[1].value) >= 2
    /\ parseResult.kind = "ok"
    /\ parseResult.value.type = "Number"

\* InvalidNumber does arise for a slice no lexer produced.
C16_HandMadeInvalidNumber ==
    /\ lexCalls = 0
    /\ FirstBuild
    /\ IsInvalidNumber(parseResult)

\* C15: run one loop iteration at a time, the lexer never puts a character
\* back and the parser's position never decreases; every iteration of the
\* lexer's loop consumes a character or returns an error, and every step of
\* the parser through parse, parse_object and parse_array consumes a token,
\* returns an error, or hands the finished value to generate; and every
\* call of Lexer::generate and of Parser::generate that was entered returns.
IsSuffix(s, t) == Len(s) <= Len(t) /\ s = SubSeq(t, Len(t) - Len(s) + 1, Len(t))
ForwardOnly ==
    /\ IsSuffix(input', input)
    /\ position' >= position
    /\ position' <= Len(tokens')
IterationProgress ==
    /\ (LexRunning /\ input # <<>>)
          => (Len(input') < Len(input) \/ lexResult'.kind = "err")
    /\ ParseRunning
          => \/ position' > position
             \/ parseResult'.kind = "err"
             \/ /\ parseResult.pc = "return"
                /\ parseResult.stack = <<>>
                /\ parseResult'.kind = "ok"
C15_CallsTerminate ==
    /\ [][ForwardOnly /\ IterationProgress]_vars
    /\ LexRunning ~> ~LexRunning
    /\ ParseRunning ~> ~ParseRunning

\* The example text was lexed and built, through the loop of parse_array
\* inside the loop of parse_object, with every token consumed.
C15_Witness ==
    /\ text = ExampleText
    /\ lexCalls = 1
    /\ input = <<>>
    /\ FirstBuild
    /\ tokens = token_list.value
    /\ parseResult = [kind |-> "ok", value |-> ExampleTree]
    /\ position = Len(tokens)

\* Run one iteration at a time, the first call of each generate returns what
\* the call returns when run at once.
StepsAgree ==
    /\ (lexCalls = 1 /\ ~LexRunning) => lexResult = Returned(Lexer_parse(text))
    /\ (FirstBuild /\ ~ParseRunning)
          => /\ parseResult = Returned(Parser_parse(tokens, 0))
             /\ position = Parser_parse(tokens, 0).pos

====
